---- MODULE Spec2Model ----
(***************************************************************************)
(* Model of darts/models/kalman_filter.py: the KalmanFilter filtering      *)
(* model, a wrapper around filterpy.kalman.KalmanFilter.                   *)
(*                                                                         *)
(* Numbers are exact rationals <<n, d>> (d > 0, lowest terms); a vector is *)
(* a sequence of rationals (a 1-d ndarray) and a matrix a sequence of rows *)
(* (a 2-d ndarray).  An Optional value is a sequence of length 0 (None) or *)
(* 1 (the value).                                                          *)
(***************************************************************************)
EXTENDS Integers, Sequences, FiniteSets, TLC

(* ------------------------------ bounds -------------------------------- *)
MaxObs == 4        \* observations passed to filter() over the model's lifetime

(* ---------------------------- rationals -------------------------------- *)
Abs(n) == IF n < 0 THEN -n ELSE n

RECURSIVE GCD(_, _)
GCD(a, b) == IF b = 0 THEN a ELSE GCD(b, a % b)

\* n / d in lowest terms with a positive denominator
Rat(n, d) ==
    LET g == GCD(Abs(n), Abs(d))
    IN  <<(IF d < 0 THEN -n ELSE n) \div g, Abs(d) \div g>>

RInt(n) == <<n, 1>>
\* sums go through the least common denominator and products cancel crosswise,
\* so that no intermediate value is larger than the result requires
RAdd(a, b) ==
    LET g == GCD(a[2], b[2])
    IN  Rat(a[1] * (b[2] \div g) + b[1] * (a[2] \div g), (a[2] \div g) * b[2])
RNeg(a) == <<-a[1], a[2]>>
RSub(a, b) == RAdd(a, RNeg(b))
RMul(a, b) ==
    LET g1 == GCD(Abs(a[1]), b[2])
        g2 == GCD(Abs(b[1]), a[2])
    IN  <<(a[1] \div g1) * (b[1] \div g2), (a[2] \div g2) * (b[2] \div g1)>>
RInv(a) == IF a[1] < 0 THEN <<-a[2], -a[1]>> ELSE <<a[2], a[1]>>
RDiv(a, b) == RMul(a, RInv(b))
RLess(a, b) == a[1] * b[2] < b[1] * a[2]
RLeq(a, b) == a[1] * b[2] <= b[1] * a[2]

(* ------------------------- numpy operations --------------------------- *)
\* an array holds its entries: the function f as a tuple of evaluated entries
Array(f) == f \o <<>>

RECURSIVE RSum(_)
RSum(s) == IF s = <<>> THEN RInt(0) ELSE RAdd(Head(s), RSum(Tail(s)))

\* np.zeros(n,): negative n is rejected by numpy, see KalmanFilter_init
zeros(n) == Array([i \in 1..n |-> RInt(0)])
\* np.eye(n)
eye(n) ==
    Array([i \in 1..n |-> Array([j \in 1..n |-> IF i = j THEN RInt(1) ELSE RInt(0)])])
\* np.ones((r, c))
ones(r, c) == Array([i \in 1..r |-> Array([j \in 1..c |-> RInt(1)])])

Rows(A) == Len(A)
Cols(A) == Len(A[1])
Transpose(A) == Array([j \in 1..Cols(A) |-> Array([i \in 1..Rows(A) |-> A[i][j]])])
\* np.dot of two 2-d arrays
dot(A, B) ==
    Array([i \in 1..Rows(A) |-> Array([j \in 1..Cols(B) |->
        RSum(Array([k \in 1..Cols(A) |-> RMul(A[i][k], B[k][j])]))])])
\* np.dot of a 2-d array and a 1-d array
dotv(A, v) ==
    Array([i \in 1..Rows(A) |-> RSum(Array([k \in 1..Len(v) |-> RMul(A[i][k], v[k])]))])
MatAdd(A, B) ==
    Array([i \in 1..Rows(A) |-> Array([j \in 1..Cols(A) |-> RAdd(A[i][j], B[i][j])])])
MatSub(A, B) ==
    Array([i \in 1..Rows(A) |-> Array([j \in 1..Cols(A) |-> RSub(A[i][j], B[i][j])])])
VecAdd(u, v) == Array([i \in 1..Len(u) |-> RAdd(u[i], v[i])])
VecSub(u, v) == Array([i \in 1..Len(u) |-> RSub(u[i], v[i])])

\* determinant of a 1x1 or 2x2 matrix (the widths modelled)
Det(A) ==
    IF Rows(A) = 1 THEN A[1][1]
    ELSE RSub(RMul(A[1][1], A[2][2]), RMul(A[1][2], A[2][1]))
\* np.linalg.inv of a 1x1 or 2x2 matrix; it raises LinAlgError("Singular
\* matrix") when Det(A) = 0, see UpdateRaises
inv(A) ==
    IF Rows(A) = 1 THEN <<<<RInv(A[1][1])>>>>
    ELSE LET d == Det(A)
         IN  << <<RDiv(A[2][2], d), RDiv(RNeg(A[1][2]), d)>>,
                <<RDiv(RNeg(A[2][1]), d), RDiv(A[1][1], d)>> >>

(* ----------------------- filterpy.kalman.KalmanFilter ------------------ *)
None == <<>>
Some(v) == <<v>>

\* FpKalmanFilter(dim_x, dim_z) refuses dim_x < 1 and dim_z < 1 (ValueError)
FpCtorRaises(dim_x, dim_z) == dim_x < 1 \/ dim_z < 1

\* FpKalmanFilter.predict(): x = F x, P = F P F' + Q (no control input)
predict(k) ==
    [k EXCEPT !.x = dotv(k.F, k.x),
              !.P = MatAdd(dot(dot(k.F, k.P), Transpose(k.F)), k.Q)]

\* the innovation covariance S = H P H' + R that update() inverts
InnovationCov(k) == MatAdd(dot(k.H, dot(k.P, Transpose(k.H))), k.R)

\* update() raises LinAlgError when S is singular
UpdateRaises(k) == Det(InnovationCov(k)) = RInt(0)

\* FpKalmanFilter.update(z): y = z - H x, K = P H' S^-1, x = x + K y,
\* P = (I - K H) P (I - K H)' + K R K'
update(k, z) ==
    LET y    == VecSub(z, dotv(k.H, k.x))
        PHT  == dot(k.P, Transpose(k.H))
        SI   == inv(InnovationCov(k))
        K    == dot(PHT, SI)
        I_KH == MatSub(eye(k.dim_x), dot(K, k.H))
    IN  [k EXCEPT !.x = VecAdd(k.x, dotv(K, y)),
                  !.P = MatAdd(dot(dot(I_KH, k.P), Transpose(I_KH)),
                               dot(dot(K, k.R), Transpose(K)))]

(* ------------------------------ inputs -------------------------------- *)
DimXs == {-1, 0, 1, 2}
Widths == {1, 2}
ObsValues == {1, 5}

Mat1(n) == <<<<RInt(n)>>>>

\* KalmanFilter(dim_x=d): every array left to its default
DefaultArgs(d) ==
    [dim_x |-> d, x_init |-> None, P |-> None, Q |-> None, R |-> None,
     H |-> None, F |-> None, kf |-> None]

\* KalmanFilter(dim_x=d, x_init=[1], P=[[2]], Q=[[1]], F=[[1]])
ExplicitArgs(d) ==
    [DefaultArgs(d) EXCEPT !.x_init = Some(<<RInt(1)>>), !.P = Some(Mat1(2)),
                           !.Q = Some(Mat1(1)), !.F = Some(Mat1(1))]

\* KalmanFilter(dim_x=1, Q=[[0]], R=[[0]]): noise-free process and measurement
NoiseFreeArgs ==
    [DefaultArgs(1) EXCEPT !.Q = Some(Mat1(0)), !.R = Some(Mat1(0))]

\* a filterpy instance built by the caller: FpKalmanFilter(dim_x=dx, dim_z=dz)
\* with x set to a 1-d zero vector and the library's other defaults
Prebuilt(dx, dz) ==
    [id |-> 0, dim_x |-> dx, dim_z |-> dz, x |-> zeros(dx), P |-> eye(dx),
     Q |-> eye(dx), R |-> eye(dz), H |-> Array([i \in 1..dz |-> zeros(dx)]), F |-> eye(dx)]

\* KalmanFilter(dim_x=d, kf=FpKalmanFilter(1, dz))
PrebuiltArgs(d, dz) == [DefaultArgs(d) EXCEPT !.kf = Some(Prebuilt(1, dz))]

CtorArgs ==
    {DefaultArgs(d) : d \in DimXs}
        \cup {ExplicitArgs(d) : d \in {-1, 1}}
        \cup {NoiseFreeArgs}
        \cup {PrebuiltArgs(2, dz) : dz \in Widths}

\* one observation of width w
ObsRows(w) == {Array([j \in 1..w |-> RInt(v + j - 1)]) : v \in ObsValues}

\* the values of the TimeSeries passed to filter(): n >= 1 rows of one width
AllValues ==
    UNION {{Array(v) : v \in [1..n -> ObsRows(w)]} : n \in 1..MaxObs, w \in Widths}

\* the TimeSeries of these values; the series filtered by one model continue one
\* stream, the k-th observation ever passed carrying timestamp k
TimeSeries(t0, v) == [times |-> Array([j \in 1..Len(v) |-> t0 + j]), vals |-> v]

\* TimeSeries.width
width(s) == Len(s.vals[1])

(* ------------------------------- state -------------------------------- *)
VARIABLES
    pc,               \* "new", "dead" (constructor raised), "idle", "hook", "loop"
    self,             \* the model's attributes; has_params = FALSE: never assigned
    kf,               \* self.kf: None or the filterpy instance
    series,           \* argument of the running filter() call
    i,                \* loop index of the running call, 0-based
    filtered_values,  \* the array filled by the running call
    result,           \* how the last finished call (or the constructor) ended
    output,           \* TimeSeries returned by the last finished call
    calls,            \* history: filter() calls started so far
    used,             \* history: observations passed to filter() so far
    events,           \* history: what the running / last call invoked, in order
    pre,              \* history: self.kf when the running / last call started
    log               \* history: finished calls, [series, result, output, kf]

vars == <<pc, self, kf, series, i, filtered_values, result, output, calls,
          used, events, pre, log>>

NoSeries == [times |-> <<>>, vals |-> <<>>]
NoSelf == [has_params |-> FALSE, dim_x |-> 0, x_init |-> <<>>, P |-> <<>>,
           Q |-> <<>>, R |-> None, H |-> None, F |-> <<>>]

Init ==
    /\ pc = "new"
    /\ self = NoSelf
    /\ kf = None
    /\ series = NoSeries
    /\ i = 0
    /\ filtered_values = <<>>
    /\ result = "none"
    /\ output = NoSeries
    /\ calls = 0
    /\ used = 0
    /\ events = <<>>
    /\ pre = None
    /\ log = <<>>

(* --------------------------- KalmanFilter ------------------------------ *)
OrElse(opt, default) == IF opt # None THEN opt[1] ELSE default

\* np.zeros / np.eye reject a negative size; they run only for unset arrays
CtorRaises(a) ==
    /\ a.kf = None
    /\ a.dim_x < 0
    /\ (a.x_init = None \/ a.P = None \/ a.Q = None \/ a.F = None)

\* KalmanFilter.__init__
KalmanFilter_init(a) ==
    /\ pc = "new"
    /\ IF CtorRaises(a)
       THEN /\ pc' = "dead"
            /\ result' = "ValueError"
            /\ UNCHANGED <<self, kf>>
       ELSE /\ pc' = "idle"
            /\ result' = "constructed"
            /\ IF a.kf = None
               THEN /\ self' = [has_params |-> TRUE,
                                dim_x  |-> a.dim_x,
                                x_init |-> OrElse(a.x_init, zeros(a.dim_x)),
                                P      |-> OrElse(a.P, eye(a.dim_x)),
                                Q      |-> OrElse(a.Q, eye(a.dim_x)),
                                R      |-> a.R,
                                H      |-> a.H,
                                F      |-> OrElse(a.F, eye(a.dim_x))]
                    /\ kf' = None
               ELSE /\ self' = NoSelf
                    /\ kf' = a.kf
    /\ UNCHANGED <<series, i, filtered_values, output, calls, used, events, pre, log>>

\* NewKf with the default observation map left at filterpy's zeros
NewKf_zero_H(dim_z) ==
    [id    |-> 1,
     dim_x |-> self.dim_x,
     dim_z |-> dim_z,
     x     |-> self.x_init,
     P     |-> self.P,
     Q     |-> self.Q,
     R     |-> OrElse(self.R, eye(dim_z)),
     H     |-> OrElse(self.H, Array([r \in 1..dim_z |-> zeros(self.dim_x)])),
     F     |-> self.F]

\* the filterpy instance filter() builds on first use
NewKf(dim_z) ==
    [id    |-> 1,
     dim_x |-> self.dim_x,
     dim_z |-> dim_z,
     x     |-> self.x_init,
     P     |-> self.P,
     Q     |-> self.Q,
     R     |-> OrElse(self.R, eye(dim_z)),
     H     |-> OrElse(self.H, ones(dim_z, self.dim_x)),
     F     |-> self.F]

\* a call ends: by raising (res # "ok") or by returning out
Finish(res, out) ==
    /\ pc' = "idle"
    /\ result' = res
    /\ output' = out
    /\ log' = Append(log, [series |-> series', result |-> res, output |-> out,
                           kf |-> kf'])

\* the R and H arrays given to the constructor fit the series' width
ShapesFit(s) ==
    /\ self.R # None => Rows(self.R[1]) = width(s)
    /\ self.H # None => Rows(self.H[1]) = width(s)

\* kf_is_None with the cache ignored: every call builds a filter
kf_is_None_always == TRUE

\* line 100: no filter instance is cached yet
kf_is_None == kf = None

\* width_matches accepting every width the filter's dim_z can hold
width_matches_at_most(dim_z) == dim_z <= kf[1].dim_z

\* lines 110-111: the condition raise_if_not() is given
width_matches(dim_z) == dim_z = kf[1].dim_z

\* filter(), up to the call of the base class: create the filter or check the width
filter_begin(v) ==
    LET s == TimeSeries(used, v) IN
    /\ pc = "idle"
    /\ used + Len(v) <= MaxObs
    /\ kf_is_None => ShapesFit(s)
    /\ series' = s
    /\ calls' = calls + 1
    /\ used' = used + Len(s.vals)
    /\ pre' = kf
    /\ i' = 0
    /\ filtered_values' = <<>>
    /\ UNCHANGED self
    /\ LET dim_z == width(s) IN
       IF kf_is_None
       THEN IF FpCtorRaises(self.dim_x, dim_z)
            THEN /\ kf' = kf
                 /\ events' = <<>>
                 /\ Finish("ValueError", NoSeries)
            ELSE /\ kf' = Some(NewKf(dim_z))
                 /\ events' = <<"create">>
                 /\ pc' = "hook"
                 /\ result' = "running"
                 /\ UNCHANGED <<output, log>>
       ELSE /\ kf' = kf
            /\ events' = <<"check">>
            /\ IF width_matches(dim_z)
               THEN /\ pc' = "hook"
                    /\ result' = "running"
                    /\ UNCHANGED <<output, log>>
               ELSE Finish("DimensionMismatch", NoSeries)

\* FilteringModel.filter: the base class accepts the series or raises
base_filter(ok) == IF ok THEN "ok" ELSE "HookError"

\* filter(), from the call of the base class to the start of the loop
filter_hook(ok) ==
    /\ pc = "hook"
    /\ events' = Append(events, "hook")
    /\ UNCHANGED <<self, kf, series, calls, used, pre, i>>
    /\ IF base_filter(ok) # "ok"
       THEN /\ Finish(base_filter(ok), NoSeries)
            /\ UNCHANGED filtered_values
       ELSE IF ~self.has_params
            THEN /\ Finish("AttributeError", NoSeries)
                 /\ UNCHANGED filtered_values
            ELSE /\ filtered_values' = Array([j \in 1..Len(series.vals) |-> zeros(self.dim_x)])
                 /\ pc' = "loop"
                 /\ UNCHANGED <<result, output, log>>

\* ndarray.reshape(n,): the n entries of the array
reshape(v, n) == Array([j \in 1..n |-> v[j]])

\* values_row reading the rows from the last to the first
values_row_reversed(j) == series.vals[Len(series.vals) - j]

\* line 118: values[i, :], the i-th row (0-based)
values_row(j) == series.vals[j + 1]

\* predict_update with the two calls in the other order
update_predict(k, obs) == predict(update(k, obs))

\* lines 119-120 when neither raises: self.kf.predict(); self.kf.update(obs)
predict_update(k, obs) == update(predict(k), obs)

\* one iteration of the loop over the observations
filter_step ==
    /\ pc = "loop"
    /\ i < Len(series.vals)
    /\ UNCHANGED <<self, series, calls, used, pre>>
    /\ LET obs == values_row(i)
           predicted == predict(kf[1])
       IN  IF UpdateRaises(predicted)
           THEN /\ kf' = Some(predicted)
                /\ events' = events \o <<"predict", "update">>
                /\ Finish("LinAlgError", NoSeries)
                /\ UNCHANGED <<i, filtered_values>>
           ELSE LET updated == predict_update(kf[1], obs) IN
                /\ kf' = Some(updated)
                /\ filtered_values' =
                       [filtered_values EXCEPT ![i + 1] = reshape(updated.x, self.dim_x)]
                /\ events' = events \o <<"predict", "update", "record">>
                /\ i' = i + 1
                /\ UNCHANGED <<pc, result, output, log>>

\* TimeSeries.from_times_and_values
from_times_and_values(times, values) == [times |-> times, vals |-> values]

\* return_value on a fresh 0-based index instead of the series' own
return_value_reindexed ==
    from_times_and_values(Array([j \in 1..Len(series.times) |-> j - 1]), filtered_values)

\* line 124: the value filter() returns
return_value == from_times_and_values(series.times, filtered_values)

\* filter() returns
filter_return ==
    /\ pc = "loop"
    /\ i = Len(series.vals)
    /\ UNCHANGED <<self, kf, series, i, filtered_values, calls, used, events, pre>>
    /\ Finish("ok", return_value)

Next ==
    \/ \E a \in CtorArgs : KalmanFilter_init(a)
    \/ \E v \in AllValues : filter_begin(v)
    \/ \E ok \in BOOLEAN : filter_hook(ok)
    \/ filter_step
    \/ filter_return

Spec == Init /\ [][Next]_vars

\* the runs in which the base class accepts every series
NextBaseAccepts ==
    \/ \E a \in CtorArgs : KalmanFilter_init(a)
    \/ \E v \in AllValues : filter_begin(v)
    \/ filter_hook(TRUE)
    \/ filter_step
    \/ filter_return

SpecBaseAccepts == Init /\ [][NextBaseAccepts]_vars

(* ------------------------- reference definitions ---------------------- *)
\* the filter k after absorbing the observations vals, one predict and one
\* update each, in order
RECURSIVE Absorb(_, _)
Absorb(k, vals) ==
    IF vals = <<>> THEN k ELSE Absorb(update(predict(k), Head(vals)), Tail(vals))

\* the posterior means along the way
PosteriorMeans(k, vals) == Array([j \in 1..Len(vals) |-> Absorb(k, SubSeq(vals, 1, j)).x])

\* the filter the running / last call started from
StartKf == IF pre = None THEN NewKf(width(series)) ELSE pre[1]

RECURSIVE LogValues(_)
LogValues(l) == IF l = <<>> THEN <<>> ELSE Head(l).series.vals \o LogValues(Tail(l))

RECURSIVE LogOutputs(_)
LogOutputs(l) == IF l = <<>> THEN <<>> ELSE Head(l).output.vals \o LogOutputs(Tail(l))

AllReturned == \A j \in 1..Len(log) : log[j].result = "ok"

\* a call has finished and none is running
CallDone == pc = "idle" /\ calls > 0

(* ------------------------------- claims -------------------------------- *)

\* what C1 asks of one step
C1_Step ==
    kf # None =>
        /\ kf' # None
        /\ kf'[1].dim_z = kf[1].dim_z
        /\ (pc = "idle" /\ calls' = calls + 1) =>
               IF width(series') # kf[1].dim_z
               THEN pc' = "idle" /\ result' = "DimensionMismatch"
               ELSE pc' = "hook" /\ result' # "DimensionMismatch"
        /\ pc # "idle" => result' # "DimensionMismatch"
\* C1: once self.kf exists, a filter() call on a series whose width differs
\* from kf.dim_z raises the dimension-mismatch error and a call of width dim_z
\* passes the check (no later step of it raises that error); kf.dim_z never
\* changes.
C1_WidthChecked == [][C1_Step]_vars

\* a second call of another width, after a first call that returned, was refused
C1_Witness ==
    /\ CallDone
    /\ Len(log) = 2
    /\ log[1].result = "ok"
    /\ width(log[2].series) # width(log[1].series)
    /\ result = "DimensionMismatch"

\* C2: when filter(A) and then filter(B) have returned on a fresh model (and so
\* on for further calls), self.kf has the mean and covariance a fresh filter
\* has after absorbing A followed by B, and the outputs of the calls, one
\* after the other, are the posterior means of that single run.
C2_StateContinuity ==
    (CallDone /\ Len(log) >= 2 /\ AllReturned) =>
        LET fresh == NewKf(width(series))
            all   == LogValues(log)
        IN  /\ kf[1].x = Absorb(fresh, all).x
            /\ kf[1].P = Absorb(fresh, all).P
            /\ LogOutputs(log) = PosteriorMeans(fresh, all)

\* two calls returned, the second on observations that differ from the first's
C2_Witness ==
    /\ CallDone
    /\ Len(log) = 2
    /\ AllReturned
    /\ Len(log[1].series.vals) = 2
    /\ log[1].series.vals # log[2].series.vals
    /\ kf[1].x # log[1].kf[1].x

\* C3: a filter() call that returns gives a series with as many entries as
\* its input, the input's timestamps in the input's order, and entries of
\* width dim_x, whatever the input's width.
C3_OneToOne ==
    \A c \in 1..Len(log) :
        log[c].result = "ok" =>
            /\ Len(log[c].output.vals) = Len(log[c].series.vals)
            /\ log[c].output.times = log[c].series.times
            /\ \A j \in 1..Len(log[c].output.vals) :
                   Len(log[c].output.vals[j]) = self.dim_x

\* a later call on width-1 observations returned width-2 estimates
C3_Witness ==
    /\ CallDone
    /\ Len(log) = 2
    /\ result = "ok"
    /\ self.dim_x = 2
    /\ width(series) = 1
    /\ Len(output.vals) = 2
    /\ output.times[1] > 1

\* C4: constructing from parameters with dim_x <= 0 fails, so no model
\* built from parameters has a non-positive dim_x.
C4_PositiveDimX ==
    (pc \notin {"new", "dead"} /\ self.has_params) => self.dim_x > 0

\* C5: on a model given a pre-built filter, a filter() call on a series of the
\* instance's dim_z that the base class accepts returns, runs on that
\* instance and gives estimates of the instance's dim_x.
C5_PrebuiltGoverns ==
    (CallDone /\ ~self.has_params /\ pre # None
        /\ width(series) = pre[1].dim_z /\ result # "HookError") =>
            /\ result = "ok"
            /\ kf[1].id = pre[1].id
            /\ \A j \in 1..Len(output.vals) : Len(output.vals[j]) = pre[1].dim_x

\* C6: a filter() call that fails leaves self.kf as it was before the call:
\* still None if it was None, else the same dim_z, mean and covariance
\* (checked on the runs in which the base class accepts every series, where
\* a call fails by the width check or inside predict / update).
C6_AllOrNothing ==
    (CallDone /\ result # "ok") => kf = pre

\* what C7 asks of one step
C7_Step ==
    /\ (pc # "new" /\ kf = None /\ kf' # None) =>
           /\ pc = "idle" /\ calls = 0 /\ self.has_params
           /\ kf'[1].dim_z = width(series')
           /\ kf'[1].dim_x = self.dim_x
           /\ kf'[1].x = self.x_init
           /\ kf'[1].P = self.P
           /\ kf'[1].Q = self.Q
           /\ kf'[1].F = self.F
           /\ kf'[1].R = IF self.R = None THEN eye(width(series')) ELSE self.R[1]
           /\ kf'[1].H = IF self.H = None
                         THEN Array([r \in 1..width(series') |->
                                        Array([c \in 1..self.dim_x |-> RInt(1)])])
                         ELSE self.H[1]
    /\ kf # None =>
           /\ kf' # None
           /\ kf'[1].id = kf[1].id
           /\ pc = "idle" => kf' = kf
\* C7: self.kf is created at most once, on the first filter() call of a model
\* built from parameters, with x = x_init, P, Q, F as configured, R the dim_z
\* identity and H the dim_z-by-dim_x all-ones matrix when unset; from then on
\* self.kf is never None again, stays the same instance, and a later call
\* starts from the state the previous one left (x_init, P are not re-applied).
C7_CreatedOnce == [][C7_Step]_vars

\* a second call returned on the instance the first call created, which by
\* then no longer had the mean x_init
C7_Witness ==
    /\ CallDone
    /\ Len(log) = 2
    /\ AllReturned
    /\ kf[1].id = 1
    /\ log[1].kf[1].x # self.x_init
    /\ pre = log[1].kf

\* the stated scalar equations: predict (mean' = F mean, cov' = F cov F + Q),
\* then update (S = H cov' H + R, K = cov' H / S, mean'' = mean' + K (z - H mean'),
\* cov'' = (1 - K H) cov')
StatedStep(m, c, z, F, H, Q, R) ==
    LET mp == RMul(F, m)
        cp == RAdd(RMul(RMul(F, c), F), Q)
        S  == RAdd(RMul(RMul(H, cp), H), R)
        K  == RDiv(RMul(cp, H), S)
    IN  <<RAdd(mp, RMul(K, RSub(z, RMul(H, mp)))),
          RMul(RSub(RInt(1), RMul(K, H)), cp)>>

RECURSIVE StatedMeans(_, _, _)
StatedMeans(m, c, zs) ==
    IF zs = <<>> THEN <<>>
    ELSE LET n == StatedStep(m, c, Head(zs), RInt(1), RInt(1), RInt(1), RInt(1))
         IN  <<n[1]>> \o StatedMeans(n[1], n[2], Tail(zs))

\* the scenario: dim_x = 1, F = H = Q = R = P = 1, x_init = 0, and the first
\* call, on the observations 5, 5, 5, has returned
C8_Scenario ==
    /\ CallDone
    /\ Len(log) = 1
    /\ result = "ok"
    /\ self.has_params
    /\ self.dim_x = 1
    /\ self.x_init = <<RInt(0)>>
    /\ self.P = Mat1(1) /\ self.Q = Mat1(1) /\ self.F = Mat1(1)
    /\ kf[1].H = Mat1(1) /\ kf[1].R = Mat1(1)
    /\ series.vals = <<<<RInt(5)>>, <<RInt(5)>>, <<RInt(5)>>>>

C8_Increasing ==
    /\ RLess(output.vals[1][1], output.vals[2][1])
    /\ RLess(output.vals[2][1], output.vals[3][1])
    /\ RLeq(output.vals[3][1], RInt(5))

C8_AsStated ==
    <<output.vals[1][1], output.vals[2][1], output.vals[3][1]>>
        = StatedMeans(RInt(0), RInt(1), <<RInt(5), RInt(5), RInt(5)>>)

\* C8 as claimed: in the scenario the three means increase toward 5 without
\* exceeding it, are the ones the stated equations give, and the first is
\* approximately 2.5 (2.5 to one decimal place).
C8_FirstNear2_5 ==
    C8_Scenario =>
        /\ C8_Increasing
        /\ C8_AsStated
        /\ RLeq(<<49, 20>>, output.vals[1][1])
        /\ RLess(output.vals[1][1], <<51, 20>>)

\* C8 as amended: in the scenario the three means increase toward 5 without
\* exceeding it, are the ones the stated equations give, and the first is
\* 10/3, approximately 3.33.
C8_FirstIs10_3 ==
    C8_Scenario =>
        /\ C8_Increasing
        /\ C8_AsStated
        /\ output.vals[1][1] = <<10, 3>>

C8_Witness == C8_Scenario /\ output.vals[3][1] = <<100, 21>>

\* C9: in every filter() call the base class's filter() is invoked before
\* anything else (before the filter is created, before the width check, before
\* any predict or update), so a call the base class rejects has changed nothing.
C9_HookFirst ==
    /\ (calls > 0 /\ events # <<>>) => events[1] = "hook"
    /\ (CallDone /\ result = "HookError") => kf = pre

\* what a call invokes per observation
RECURSIVE Rounds(_)
Rounds(n) == IF n = 0 THEN <<>> ELSE <<"predict", "update", "record">> \o Rounds(n - 1)

\* C10: a filter() call takes the observations in input order, one predict
\* then one update each; the j-th output is the post-update mean after the
\* observations 1..j have been absorbed from the filter state at the start of
\* the call; a call that returns on T observations has made T predicts and T
\* updates, alternating, predict first.
C10_Sequential ==
    ((pc = "loop" \/ (CallDone /\ result = "ok"))) =>
        /\ SubSeq(events, 3, Len(events)) = Rounds(i)
        /\ \A j \in 1..i :
               filtered_values[j] = Absorb(StartKf, SubSeq(series.vals, 1, j)).x
        /\ (pc = "idle") =>
               /\ i = Len(series.vals)
               /\ output.vals = PosteriorMeans(StartKf, series.vals)

\* a call on three observations, not all equal, returned on a filter that an
\* earlier call had advanced
C10_Witness ==
    /\ CallDone
    /\ result = "ok"
    /\ Len(log) = 2
    /\ log[1].result = "ok"
    /\ Len(series.vals) = 3
    /\ series.vals[1] # series.vals[3]
    /\ Len(events) = 11
====
